---------------------------- MODULE Spec2Model ----------------------------
(***************************************************************************)
(* Model of the schedule parser in src/main.go: main() fetches a page,     *)
(* parsePage extracts and decodes the embedded JSON document and walks it  *)
(* to the markup fragments, parseArticleRawHtml turns each fragment into   *)
(* Translation records, Translation.ToTypedTranslation resolves the times, *)
(* main stable-sorts by AlmatyTime and writes the two report files.        *)
(*                                                                         *)
(* Strings whose characters the code inspects (time text, date text, cell  *)
(* text) are sequences of one-character strings.  Instants are counted in  *)
(* minutes since 1970-01-01 00:00 UTC (the layouts carry no seconds).      *)
(* A Go panic ends the run: pc = "panicked".                               *)
(***************************************************************************)
EXTENDS Integers, Sequences, FiniteSets, TLC

VARIABLES
    pc,            \* position of main(): which statement runs next
    local,         \* time.Local of the machine the program runs on
    bodyString,    \* the fetched page body: [layout, doc]
    jsonString,    \* parsePage: the text between the markers
    jsonMap,       \* parsePage: the decoded document (a Go map)
    translations,  \* the []Translation parsePage returned
    res,           \* main: the []TypedTranslation
    files          \* the report files written so far

vars == <<pc, local, bodyString, jsonString, jsonMap, translations, res, files>>

(***************************************************************************)
(* Bounds of the inputs.                                                   *)
(***************************************************************************)
MaxBody == 4
MaxTabs == 2
MaxBlocks == 2
MaxRows == 3

(***************************************************************************)
(* Characters.                                                             *)
(***************************************************************************)
Digits == <<"0", "1", "2", "3", "4", "5", "6", "7", "8", "9">>

Upper == {"A", "B", "C", "D", "E", "F", "G", "H", "I", "J", "K", "L", "M",
          "N", "O", "P", "Q", "R", "S", "T", "U", "V", "W", "X", "Y", "Z"}

At(s, i) == IF i \in 1..Len(s) THEN s[i] ELSE ""

isDigit(s, i) == \E k \in 1..10 : Digits[k] = At(s, i)

DigitVal(c) == (CHOOSE k \in 1..10 : Digits[k] = c) - 1

Num2(s, i) == 10 * DigitVal(s[i]) + DigitVal(s[i + 1])

\* s[n:]
Drop(s, n) == SubSeq(s, n + 1, Len(s))

HasSuffix(s, suf) ==
    /\ Len(s) >= Len(suf)
    /\ SubSeq(s, Len(s) - Len(suf) + 1, Len(s)) = suf

\* strings.Index: the 0-based position of the first occurrence, -1 if none.
Index(s, sub) ==
    LET hits == {i \in 0..(Len(s) - Len(sub)) : SubSeq(s, i + 1, i + Len(sub)) = sub}
    IN  IF hits = {} THEN -1 ELSE CHOOSE i \in hits : \A j \in hits : i <= j

(***************************************************************************)
(* The calendar (package time).                                            *)
(***************************************************************************)
MinPerDay == 24 * 60

isLeap(y) == y % 4 = 0 /\ (y % 100 # 0 \/ y % 400 = 0)

daysIn(m, y) ==
    IF m = 2 THEN (IF isLeap(y) THEN 29 ELSE 28)
    ELSE IF m \in {4, 6, 9, 11} THEN 30 ELSE 31

\* Days from 1970-01-01 to the civil date y-m-d.
DaysFromCivil(y, m, d) ==
    LET yy  == IF m <= 2 THEN y - 1 ELSE y
        era == yy \div 400
        yoe == yy - era * 400
        mp  == (m + 9) % 12
        doy == (153 * mp + 2) \div 5 + d - 1
        doe == yoe * 365 + yoe \div 4 - yoe \div 100 + doy
    IN  era * 146097 + doe - 719468

\* The civil year of a day count: the year of the 400-year era, moved on by
\* one for January and February, which close the year that starts in March.
YearOfEra(doe) == (doe - doe \div 1460 + doe \div 36524 - doe \div 146096) \div 365

DayOfYear(doe, yoe) == doe - (365 * yoe + yoe \div 4 - yoe \div 100)

CivilYear(era, yoe, doy) == yoe + era * 400 + (IF doy >= 306 THEN 1 ELSE 0)

YearInEra(era, doe, yoe) == CivilYear(era, yoe, DayOfYear(doe, yoe))

YearFrom(zz, era) == YearInEra(era, zz - era * 146097, YearOfEra(zz - era * 146097))

YearOfDays(z) == YearFrom(z + 719468, (z + 719468) \div 146097)

YearOf(unix) == YearOfDays(unix \div MinPerDay)

\* 0 = Sunday.
Weekday(days) == (days + 4) % 7

FirstSunday(y, m) == 1 + ((7 - Weekday(DaysFromCivil(y, m, 1))) % 7)

(***************************************************************************)
(* The zones the program loads (init) and the machine's own zone.  Offsets *)
(* are minutes east of UTC at a UTC instant.  America/Los_Angeles follows  *)
(* the US rule in force since 2007 (daylight time from the second Sunday   *)
(* of March, 10:00 UTC, to the first Sunday of November, 09:00 UTC);       *)
(* Asia/Almaty moved from +06 to +05 on 2024-03-01 00:00 local.            *)
(***************************************************************************)
UTC == "UTC"

LosAngeles == "America/Los_Angeles"

Almaty == "Asia/Almaty"

Fabricated == "fabricated"

LocalZones == {UTC, LosAngeles}

laLocation == LosAngeles

almatyLocation == Almaty

DaylightStart(y) == DaysFromCivil(y, 3, FirstSunday(y, 3) + 7) * MinPerDay + 10 * 60

DaylightEnd(y) == DaysFromCivil(y, 11, FirstSunday(y, 11)) * MinPerDay + 9 * 60

DaylightIn(y, unix) == DaylightStart(y) <= unix /\ unix < DaylightEnd(y)

PacificDaylight(unix) == DaylightIn(YearOf(unix), unix)

ZoneOffset(loc, unix) ==
    IF loc = LosAngeles
    THEN (IF PacificDaylight(unix) THEN 0 - 7 * 60 ELSE 0 - 8 * 60)
    ELSE IF loc = Almaty
    THEN (IF unix < DaysFromCivil(2024, 2, 29) * MinPerDay + 18 * 60
          THEN 6 * 60 ELSE 5 * 60)
    ELSE 0

\* Location.lookupName: the offset of the zone of loc that carries the
\* abbreviation, if there is one.
lookupName(loc, name) ==
    IF loc = LosAngeles /\ name = <<"P", "S", "T">>
    THEN [ok |-> TRUE, offset |-> 0 - 8 * 60]
    ELSE IF loc = LosAngeles /\ name \in {<<"P", "D", "T">>, <<"P", "W", "T">>}
    THEN [ok |-> TRUE, offset |-> 0 - 7 * 60]
    ELSE [ok |-> FALSE, offset |-> 0]

\* time.Date(y, m, d, h, mi, 0, 0, loc): the wall clock read in loc.  The
\* offset is looked up at the wall clock taken as UTC and again at the
\* instant that gives when the first guess falls in another zone period.
\* A Time holds the instant and the location; off is the offset the
\* location shows at that instant.
TimeAt(unix, loc) == [unix |-> unix, loc |-> loc, off |-> ZoneOffset(loc, unix)]

DateOfWall(wall, loc) == TimeAt(wall - ZoneOffset(loc, wall - ZoneOffset(loc, wall)), loc)

Date(y, m, d, h, mi, loc) ==
    DateOfWall(DaysFromCivil(y, m, d) * MinPerDay + h * 60 + mi, loc)

\* Time.In(loc): the same instant, shown in loc.
InShifted(t, loc) == TimeAt(t.unix + ZoneOffset(loc, t.unix), loc)

In(t, loc) == TimeAt(t.unix, loc)

\* Time.Before.
Before(t, u) == t.unix < u.unix

(***************************************************************************)
(* time.Parse / time.ParseInLocation for the two layouts of the program,   *)
(* "01-02-2006 3:04 PM" and "01-02-2006 3:04 PM MST".                      *)
(***************************************************************************)
\* parseTimeZone: how many characters of z form a zone abbreviation; 0 when
\* z does not start with one.  Three upper-case letters are an abbreviation,
\* four or five when the last is T (and WITA, ChST, MeST); GMT may carry a
\* signed hour of one or two digits.
GMTDigits(z) ==
    IF isDigit(z, 5) /\ isDigit(z, 6) THEN 2 ELSE IF isDigit(z, 5) THEN 1 ELSE 0

GMTValue(z) == IF isDigit(z, 6) THEN Num2(z, 5) ELSE DigitVal(z[5])

parseGMT(z) ==
    IF At(z, 4) \notin {"+", "-"} \/ GMTDigits(z) = 0 THEN 3
    ELSE IF GMTValue(z) > 23 THEN 0
    ELSE 4 + GMTDigits(z)

nUpper(z) ==
    CHOOSE n \in 0..6 :
        /\ \A i \in 1..n : At(z, i) \in Upper
        /\ n = 6 \/ At(z, n + 1) \notin Upper

upperZone(z, n) ==
    IF n = 5 THEN (IF z[5] = "T" THEN 5 ELSE 0)
    ELSE IF n = 4
    THEN (IF z[4] = "T" \/ SubSeq(z, 1, 4) = <<"W", "I", "T", "A">> THEN 4 ELSE 0)
    ELSE IF n = 3 THEN 3
    ELSE 0

parseTimeZone(z) ==
    IF Len(z) < 3 THEN 0
    ELSE IF Len(z) >= 4 /\ SubSeq(z, 1, 4) \in {<<"C", "h", "S", "T">>, <<"M", "e", "S", "T">>}
    THEN 4
    ELSE IF SubSeq(z, 1, 3) = <<"G", "M", "T">> THEN parseGMT(z)
    ELSE upperZone(z, nUpper(z))

\* The zone text of the layout's MST: "UTC", or what parseTimeZone accepts,
\* and nothing after it.
zoneShape(z) ==
    IF Len(z) >= 3 /\ SubSeq(z, 1, 3) = <<"U", "T", "C">>
    THEN Len(z) = 3
    ELSE Len(z) > 0 /\ parseTimeZone(z) = Len(z)

\* The offset Parse gives an abbreviation: UTC is UTC; one that the
\* machine's zone defines has that zone's offset; GMT with a signed hour has
\* that hour; any other is recorded in a fabricated location with offset 0.
GMTHours(z) == IF z[4] = "-" THEN 0 - GMTValue(z) ELSE GMTValue(z)

zoneFrom(z, loc, found) ==
    IF z = <<"U", "T", "C">> THEN [loc |-> UTC, off |-> 0]
    ELSE IF found.ok THEN [loc |-> loc, off |-> found.offset]
    ELSE IF Len(z) > 3 /\ SubSeq(z, 1, 3) = <<"G", "M", "T">>
    THEN [loc |-> Fabricated, off |-> GMTHours(z) * 60]
    ELSE [loc |-> Fabricated, off |-> 0]

ZoneOfName(z, loc) == zoneFrom(z, loc, lookupName(loc, z))

NoTime == [unix |-> 0, loc |-> UTC, off |-> 0]

ParseError == [ok |-> FALSE, t |-> NoTime]

\* The fields of value read against "01-02-2006 3:04 PM" (withZone FALSE) or
\* "01-02-2006 3:04 PM MST" (withZone TRUE); p is where the ':' after the
\* one- or two-digit hour must stand.  ok is FALSE where Parse returns an
\* error: a text off the layout, or a field out of range.
layoutShape(value, withZone, p) ==
    /\ isDigit(value, 1) /\ isDigit(value, 2) /\ At(value, 3) = "-"
    /\ isDigit(value, 4) /\ isDigit(value, 5) /\ At(value, 6) = "-"
    /\ \A i \in 7..10 : isDigit(value, i)
    /\ At(value, 11) = " "
    /\ isDigit(value, 12)
    /\ At(value, p) = ":"
    /\ isDigit(value, p + 1) /\ isDigit(value, p + 2)
    /\ At(value, p + 3) = " "
    /\ At(value, p + 4) \in {"A", "P"} /\ At(value, p + 5) = "M"
    /\ IF withZone
       THEN At(value, p + 6) = " " /\ zoneShape(Drop(value, p + 6))
       ELSE Len(value) = p + 5

rangeChecked(f) ==
    IF \/ f.month < 1 \/ f.month > 12 \/ f.hour > 12 \/ f.min > 59
       \/ f.day < 1 \/ f.day > daysIn(f.month, f.year)
    THEN [ok |-> FALSE]
    ELSE [f EXCEPT !.hour = IF f.pm /\ f.hour < 12 THEN f.hour + 12
                             ELSE IF ~f.pm /\ f.hour = 12 THEN 0 ELSE f.hour]

fieldsAt(value, withZone, p) ==
    IF ~layoutShape(value, withZone, p) THEN [ok |-> FALSE]
    ELSE rangeChecked(
             [ok    |-> TRUE,
              month |-> Num2(value, 1),
              day   |-> Num2(value, 4),
              year  |-> 1000 * DigitVal(value[7]) + 100 * DigitVal(value[8]) + Num2(value, 9),
              hour  |-> IF p = 14 THEN Num2(value, 12) ELSE DigitVal(value[12]),
              min   |-> Num2(value, p + 1),
              pm    |-> value[p + 4] = "P",
              zone  |-> IF withZone THEN Drop(value, p + 6) ELSE <<>>])

ParseFields(value, withZone) ==
    fieldsAt(value, withZone, IF isDigit(value, 12) /\ isDigit(value, 13) THEN 14 ELSE 13)

\* time.ParseInLocation("01-02-2006 3:04 PM", value, loc)
locatedIn(f, loc) ==
    IF ~f.ok THEN ParseError
    ELSE [ok |-> TRUE, t |-> Date(f.year, f.month, f.day, f.hour, f.min, loc)]

ParseInLocation(value, loc) == locatedIn(ParseFields(value, FALSE), loc)

\* time.Parse("01-02-2006 3:04 PM MST", value) on a machine whose zone is
\* loc: the wall clock is taken as UTC; it is moved by the abbreviation's
\* offset when the machine's zone defines the abbreviation, and only
\* relabelled with the fabricated zone otherwise.
zonedTime(wall, z) ==
    [ok |-> TRUE,
     t  |-> IF z.loc = Fabricated
            THEN [unix |-> wall, loc |-> Fabricated, off |-> z.off]
            ELSE TimeAt(wall - z.off, z.loc)]

zonedIn(f, loc) ==
    IF ~f.ok THEN ParseError
    ELSE zonedTime(Date(f.year, f.month, f.day, f.hour, f.min, UTC).unix,
                   ZoneOfName(f.zone, loc))

Parse(value, loc) == zonedIn(ParseFields(value, TRUE), loc)

(***************************************************************************)
(* Translation and TypedTranslation.                                       *)
(***************************************************************************)
NoTyped ==
    [AlmatyTime |-> NoTime, Tournament |-> <<>>, Region |-> <<>>, Broadcast |-> <<>>,
     OriginalTime |-> NoTime, OriginalDate |-> <<>>]

\* The time the two branches of ToTypedTranslation parse: [ok, t]; ok is
\* FALSE where the method panics (a parse error, or the slice
\* t.Time[:len(t.Time)-3] of a text shorter than three characters).
ParsedTime(t, loc) ==
    IF HasSuffix(t.Time, <<"P", "T">>)
    THEN IF Len(t.Time) < 3 THEN ParseError
         ELSE ParseInLocation(t.Date \o <<" ">> \o SubSeq(t.Time, 1, Len(t.Time) - 3),
                              laLocation)
    ELSE Parse(t.Date \o <<" ">> \o t.Time, loc)

typed(t, p) ==
    IF ~p.ok THEN [ok |-> FALSE, val |-> NoTyped]
    ELSE [ok  |-> TRUE,
          val |-> [OriginalDate |-> t.Date \o <<" ">> \o t.Time,
                   Tournament   |-> t.Tournament,
                   Region       |-> t.Region,
                   AlmatyTime   |-> In(p.t, almatyLocation),
                   OriginalTime |-> p.t,
                   Broadcast    |-> t.Broadcast]]

ToTypedTranslation(t, loc) == typed(t, ParsedTime(t, loc))

(***************************************************************************)
(* The decoded JSON document.  A value is [kind, val]: a Go map            *)
(* (map[string]any, a function on its keys), a list ([]any), a string, any *)
(* other scalar, or nil.  The value of an articleRawHtml string is the     *)
(* markup it holds: [root, wellFormed, rows], a row a sequence of cells    *)
(* [Key, Raw], Raw the cell's character data as written in the markup.     *)
(***************************************************************************)
JMap(f) == [kind |-> "map", val |-> f]

JList(s) == [kind |-> "list", val |-> s]

JStr(x) == [kind |-> "str", val |-> x]

JNum == [kind |-> "num", val |-> <<>>]

JNil == [kind |-> "nil", val |-> <<>>]

\* jsonMap[key]: nil for a key the map does not hold.
MapGet(m, key) == IF key \in DOMAIN m THEN m[key] ELSE JNil

Panic == [ok |-> FALSE, val |-> <<>>]

Return(v) == [ok |-> TRUE, val |-> v]

RECURSIVE getMap(_, _)
getMap(m, path) ==
    LET v == MapGet(m, path[1])
    IN  IF v.kind # "map" THEN Panic
        ELSE IF Len(path) = 1 THEN Return(v.val)
        ELSE getMap(v.val, Drop(path, 1))

RECURSIVE getString(_, _)
getString(m, path) ==
    LET v == MapGet(m, path[1])
    IN  IF Len(path) = 1
        THEN (IF v.kind # "str" THEN Panic ELSE Return(v.val))
        ELSE IF v.kind # "map" THEN Panic
        ELSE getString(v.val, Drop(path, 1))

getSlice(m, path) ==
    LET v == MapGet(m, path)
    IN  IF v.kind # "list" THEN Panic ELSE Return(v.val)

(***************************************************************************)
(* The markup row parser.                                                  *)
(***************************************************************************)
\* strings.ReplaceAll(articleRaw, "&", "amp;") on a cell's character data
RECURSIVE ReplaceAmp(_)
ReplaceAmp(s) ==
    IF s = <<>> THEN <<>>
    ELSE IF Head(s) = "&" THEN <<"a", "m", "p", ";">> \o ReplaceAmp(Drop(s, 1))
    ELSE <<Head(s)>> \o ReplaceAmp(Drop(s, 1))

\* The XML decoder's reading of character data: an entity reference stands
\* for its character, any other '&' is a syntax error.
Entities ==
    << [ref |-> <<"&", "a", "m", "p", ";">>, char |-> "&"],
       [ref |-> <<"&", "l", "t", ";">>, char |-> "<"],
       [ref |-> <<"&", "g", "t", ";">>, char |-> ">"] >>

RECURSIVE CharData(_)
CharData(s) ==
    IF s = <<>> THEN Return(<<>>)
    ELSE IF Head(s) # "&"
    THEN LET r == CharData(Drop(s, 1))
         IN  IF r.ok THEN Return(<<Head(s)>> \o r.val) ELSE Panic
    ELSE LET hit == {k \in 1..Len(Entities) :
                        /\ Len(s) >= Len(Entities[k].ref)
                        /\ SubSeq(s, 1, Len(Entities[k].ref)) = Entities[k].ref}
         IN  IF hit = {} THEN Panic
             ELSE LET e == Entities[CHOOSE k \in hit : TRUE]
                      r == CharData(Drop(s, Len(e.ref)))
                  IN  IF r.ok THEN Return(<<e.char>> \o r.val) ELSE Panic

\* Tr.GetField: the Value of the first cell whose Key is name, else "".
GetFieldLast(tr, name) ==
    LET hit == {i \in 1..Len(tr) : tr[i].Key = name}
    IN  IF hit = {} THEN <<>>
        ELSE tr[CHOOSE i \in hit : \A j \in hit : j <= i].Value

GetField(tr, name) ==
    LET hit == {i \in 1..Len(tr) : tr[i].Key = name}
    IN  IF hit = {} THEN <<>>
        ELSE tr[CHOOSE i \in hit : \A j \in hit : i <= j].Value

\* Tr.ToTranslation
ToTranslation(tr) ==
    [Date       |-> GetField(tr, "dateBody"),
     Tournament |-> GetField(tr, "tournamentBody"),
     Region     |-> GetField(tr, "regionBody"),
     Time       |-> GetField(tr, "timeBody"),
     Broadcast  |-> GetField(tr, "broadcastBody")]

\* xml.Unmarshal of one row: its cells as Td{Key, Value}.
UnmarshalTr(row) ==
    IF \E i \in 1..Len(row) : ~CharData(row[i].Raw).ok THEN Panic
    ELSE Return([i \in 1..Len(row) |->
                    [Key |-> row[i].Key, Value |-> CharData(row[i].Raw).val]])

\* HtmlTable.TBody.Tr: the tr elements of the tbody, in document order.
RECURSIVE distinctRows(_)
distinctRows(rows) ==
    IF rows = <<>> THEN <<>>
    ELSE LET front == distinctRows(SubSeq(rows, 1, Len(rows) - 1))
         IN  IF \E i \in 1..Len(front) : front[i] = rows[Len(rows)]
             THEN front ELSE Append(front, rows[Len(rows)])

tbodyDistinct(articleRaw) == distinctRows(articleRaw.rows)

tbody(articleRaw) == articleRaw.rows

\* The fragment after strings.ReplaceAll(articleRaw, "&", "amp;").
escapedRows(rows) ==
    [r \in 1..Len(rows) |->
        [c \in 1..Len(rows[r]) |->
            [Key |-> rows[r][c].Key, Raw |-> ReplaceAmp(rows[r][c].Raw)]]]

\* parseArticleRawHtml: escape, unmarshal into HtmlTable, one Translation
\* per tr of the tbody.
unmarshalTable(articleRaw, rows) ==
    IF \/ ~articleRaw.wellFormed
       \/ articleRaw.root # "table"
       \/ \E r \in 1..Len(rows) : ~UnmarshalTr(rows[r]).ok
    THEN Panic
    ELSE Return([r \in 1..Len(rows) |-> ToTranslation(UnmarshalTr(rows[r]).val)])

parseArticleRawHtml(articleRaw) ==
    unmarshalTable(articleRaw, escapedRows(tbody(articleRaw)))

(***************************************************************************)
(* parsePage, after the decode: the walk to the fragments.                 *)
(***************************************************************************)
\* The loop over the top-level blocks: the tabs list of the first block that
\* holds the key "tabs"; the nil slice when no block does.
RECURSIVE findTabs(_, _)
findTabs(blocks, i) ==
    IF i > Len(blocks) THEN Return(<<>>)
    ELSE IF blocks[i].kind # "map" THEN Panic
    ELSE IF "tabs" \in DOMAIN blocks[i].val
    THEN (IF blocks[i].val["tabs"].kind # "map" THEN Panic
          ELSE getSlice(blocks[i].val["tabs"].val, "tabs"))
    ELSE findTabs(blocks, i + 1)

\* The inner loop: the records of the blocks j.. of one tab.
RECURSIVE blockTranslations(_, _)
blockTranslations(blocks, j) ==
    IF j > Len(blocks) THEN Return(<<>>)
    ELSE IF blocks[j].kind # "map" THEN Panic
    ELSE LET articleRaw == getString(blocks[j].val, <<"richTextEditor", "articleRawHtml">>)
         IN  IF ~articleRaw.ok THEN Panic
             ELSE LET here == parseArticleRawHtml(articleRaw.val)
                  IN  IF ~here.ok THEN Panic
                      ELSE LET rest == blockTranslations(blocks, j + 1)
                           IN  IF ~rest.ok THEN Panic
                               ELSE Return(here.val \o rest.val)

\* The outer loop: the records of the tabs i.. .
RECURSIVE tabTranslations(_, _)
tabTranslations(tabsSlice, i) ==
    IF i > Len(tabsSlice) THEN Return(<<>>)
    ELSE IF tabsSlice[i].kind # "map" THEN Panic
    ELSE IF MapGet(tabsSlice[i].val, "blocks").kind # "list" THEN Panic
    ELSE LET here == blockTranslations(tabsSlice[i].val["blocks"].val, 1)
         IN  IF ~here.ok THEN Panic
             ELSE LET rest == tabTranslations(tabsSlice, i + 1)
                  IN  IF ~rest.ok THEN Panic
                      ELSE Return(here.val \o rest.val)

navigate(m) ==
    LET pageProps == getMap(m, <<"props", "pageProps">>)
    IN  IF ~pageProps.ok THEN Panic
        ELSE LET blocks == getSlice(pageProps.val, "blocks")
             IN  IF ~blocks.ok THEN Panic
                 ELSE LET tabsSlice == findTabs(blocks.val, 1)
                      IN  IF ~tabsSlice.ok THEN Panic
                          ELSE tabTranslations(tabsSlice.val, 1)

(***************************************************************************)
(* sort.SliceStable(res, less) of main.  Up to twenty elements the library *)
(* sorts by insertion, swapping an element down while less(j, j-1).        *)
(***************************************************************************)
lessOrEqual(a, b) == ~Before(b.AlmatyTime, a.AlmatyTime)

less(a, b) == Before(a.AlmatyTime, b.AlmatyTime)

Swap(s, j) == [s EXCEPT ![j] = s[j - 1], ![j - 1] = s[j]]

RECURSIVE sink(_, _)
sink(s, j) ==
    IF j > 1 /\ less(s[j], s[j - 1]) THEN sink(Swap(s, j), j - 1) ELSE s

RECURSIVE insertionSort(_, _)
insertionSort(s, i) ==
    IF i > Len(s) THEN s ELSE insertionSort(sink(s, i), i + 1)

SliceStable(s) == insertionSort(s, 2)

(***************************************************************************)
(* The page body.  Its text is a sequence of pieces: the two halves of the *)
(* opening marker, the closing marker, the text of a JSON document ("J",   *)
(* the document being bodyString.doc) and other text ("x").  Lengths and   *)
(* positions count pieces where the code counts bytes.                     *)
(***************************************************************************)
prefix == <<"<script id=__NEXT_DATA__", "type=application/json>">>

suffix == <<"</script>">>

JsonFile == "overwatch-translations.json"

CsvFile == "overwatch-translations.csv"

\* json.Marshal of a time.Time fails for a year outside 0..9999.
MarshalOk(r) ==
    \A i \in 1..Len(r) :
        /\ YearOf(r[i].AlmatyTime.unix + r[i].AlmatyTime.off) \in 0..9999
        /\ YearOf(r[i].OriginalTime.unix + r[i].OriginalTime.off) \in 0..9999

(***************************************************************************)
(* The inputs: the texts of the rows, the documents and the page bodies    *)
(* the runs are checked on.                                                *)
(***************************************************************************)
D0315 == <<"0", "3", "-", "1", "5", "-", "2", "0", "2", "4">>

D0316 == <<"0", "3", "-", "1", "6", "-", "2", "0", "2", "4">>

D0310 == <<"0", "3", "-", "1", "0", "-", "2", "0", "2", "4">>

D0229 == <<"0", "2", "-", "2", "9", "-", "2", "0", "2", "4">>

D0230 == <<"0", "2", "-", "3", "0", "-", "2", "0", "2", "4">>

D1103 == <<"1", "1", "-", "0", "3", "-", "2", "0", "2", "4">>

D0704 == <<"0", "7", "-", "0", "4", "-", "2", "0", "2", "3">>

T6pmPT == <<"6", ":", "0", "0", " ", "P", "M", " ", "P", "T">>

T1130amPT == <<"1", "1", ":", "3", "0", " ", "A", "M", " ", "P", "T">>

T230amPT == <<"2", ":", "3", "0", " ", "A", "M", " ", "P", "T">>

T130amPT == <<"1", ":", "3", "0", " ", "A", "M", " ", "P", "T">>

T12amPT == <<"1", "2", ":", "0", "0", " ", "A", "M", " ", "P", "T">>

T13pmPT == <<"1", "3", ":", "0", "0", " ", "P", "M", " ", "P", "T">>

TPT == <<"P", "T">>

T6pmPST == <<"6", ":", "0", "0", " ", "P", "M", " ", "P", "S", "T">>

T6pmPDT == <<"6", ":", "0", "0", " ", "P", "M", " ", "P", "D", "T">>

T6pmCET == <<"6", ":", "0", "0", " ", "P", "M", " ", "C", "E", "T">>

T6pmXXX == <<"6", ":", "0", "0", " ", "P", "M", " ", "X", "X", "X">>

T1amUTC == <<"1", ":", "0", "0", " ", "A", "M", " ", "U", "T", "C">>

T6pm == <<"6", ":", "0", "0", " ", "P", "M">>

T6pmGMT3 == <<"6", ":", "0", "0", " ", "P", "M", " ", "G", "M", "T", "+", "3">>

T6pmLower == <<"6", ":", "0", "0", " ", "P", "M", " ", "p", "s", "t">>

DateTexts == {D0315, D0310, D0229, D0230, D1103, D0704}

TimeTexts ==
    {T6pmPT, T1130amPT, T230amPT, T130amPT, T12amPT,
     T13pmPT, TPT, T6pmPST, T6pmPDT, T6pmCET,
     T6pmXXX, T1amUTC, T6pm, T6pmGMT3, T6pmLower}

AmpBare == <<"A", "&", "B">>

AmpEntity == <<"A", "&", "a", "m", "p", ";", "B">>

AmpLast == <<"O", "W", "&">>

Cell(key, raw) == [Key |-> key, Raw |-> raw]

Row(date, time, tournament) ==
    << Cell("dateBody", date), Cell("tournamentBody", tournament),
       Cell("regionBody", <<"N", "A">>), Cell("timeBody", time),
       Cell("broadcastBody", <<"T", "V">>) >>

Fragment(rows) == [root |-> "table", wellFormed |-> TRUE, rows |-> rows]

Block(articleRaw) ==
    JMap([richTextEditor |-> JMap([articleRawHtml |-> JStr(articleRaw)])])

Tab(fragments) ==
    JMap([blocks |-> JList([j \in 1..Len(fragments) |-> Block(fragments[j])])])

TabsBlock(tabs) == JMap([tabs |-> JMap([tabs |-> JList(tabs)])])

Page(blocks) == JMap([props |-> JMap([pageProps |-> JMap([blocks |-> JList(blocks)])])])

\* A document of the expected shape: a block without the key "tabs", then
\* the block that holds the tabs; tabs is a sequence of sequences of
\* fragments.
Doc(tabs) ==
    Page(<< JMap([hero |-> JNum]),
            TabsBlock([i \in 1..Len(tabs) |-> Tab(tabs[i])]) >>)

RowDoc(row) == Doc(<< << Fragment(<<row>>) >> >>)

SeqsUpTo(S, n) == UNION {[1..k -> S] : k \in 0..n}

\* One row, every date with every time text.
TimeDocs == {RowDoc(Row(d, t, <<"A">>)) : d \in DateTexts, t \in TimeTexts}

\* One fragment of up to MaxRows rows, among them rows that resolve to the
\* same instant (A, D and U), an earlier one (C) and one whose date does not
\* exist (X).
SortRows ==
    { Row(D0315, T6pmPT, <<"A">>), Row(D0315, T6pmPT, <<"D">>),
      Row(D0316, T1amUTC, <<"U">>), Row(D0315, T1130amPT, <<"C">>),
      Row(D0230, T6pmPT, <<"X">>) }

SortDocs == {Doc(<< << Fragment(rows) >> >>) : rows \in SeqsUpTo(SortRows, MaxRows)}

\* Up to MaxTabs tabs of up to MaxBlocks fragments each (none too): the
\* fragment of block j of tab i has one row, or two identical rows, that
\* carry i and j as the tournament.
NavRow(date, time, i, j) == Row(date, time, <<Digits[i + 1], Digits[j + 1]>>)

NavFragment(i, j) ==
    IF (i + j) % 2 = 0
    THEN Fragment(<< NavRow(D0315, T1130amPT, i, j) >>)
    ELSE Fragment(<< NavRow(D0704, T6pmPT, i, j), NavRow(D0704, T6pmPT, i, j) >>)

NavDocs ==
    { Doc([i \in 1..Len(shape) |-> [j \in 1..shape[i] |-> NavFragment(i, j)]]) :
        shape \in SeqsUpTo(0..MaxBlocks, MaxTabs) }

\* Rows with repeated, missing and unknown labels, and with '&' in a cell.
CellRows ==
    { << Cell("dateBody", D0315), Cell("timeBody", T6pmPT), Cell("timeBody", T1130amPT),
         Cell("tournamentBody", <<"A">>), Cell("tournamentBody", <<"B">>) >>,
      << Cell("timeBody", T6pmXXX), Cell("dateBody", D0315), Cell("timeBody", T6pmPT) >>,
      << Cell("dateBody", D0315), Cell("timeBody", T6pmPT) >>,
      << Cell("otherBody", <<"x">>), Cell("dateBody", D0315), Cell("timeBody", T6pmPT) >>,
      << Cell("timeBody", T6pmPT) >>,
      << >>,
      Row(D0315, T6pmPT, AmpBare),
      Row(D0315, T6pmPT, AmpEntity),
      Row(D0315, T6pmPT, AmpLast) }

CellDocs == {RowDoc(r) : r \in CellRows} \cup {Doc(<< << Fragment(<< >>) >> >>)}

GoodRow == Row(D0315, T6pmPT, <<"A">>)

GoodTab == Tab(<< Fragment(<<GoodRow>>) >>)

\* Documents off the expected shape, and fragments that do not parse.
OddDocs ==
    << JMap(<< >>),
       JMap([props |-> JNum]),
       JMap([props |-> JMap(<< >>)]),
       JMap([props |-> JMap([pageProps |-> JNum])]),
       JMap([props |-> JMap([pageProps |-> JMap(<< >>)])]),
       JMap([props |-> JMap([pageProps |-> JMap([blocks |-> JMap(<< >>)])])]),
       Page(<< >>),
       Page(<< JMap([hero |-> JNum]) >>),
       Page(<< JNum, TabsBlock(<<GoodTab>>) >>),
       Page(<< TabsBlock(<<GoodTab>>), JNum >>),
       Page(<< JMap([tabs |-> JNil]) >>),
       Page(<< JMap([tabs |-> JList(<<GoodTab>>)]) >>),
       Page(<< JMap([tabs |-> JMap(<< >>)]) >>),
       Page(<< JMap([tabs |-> JMap([tabs |-> JNum])]) >>),
       Page(<< TabsBlock(<< >>) >>),
       Page(<< TabsBlock(<<GoodTab, JNum>>) >>),
       Page(<< TabsBlock(<<GoodTab, JMap(<< >>)>>) >>),
       Page(<< TabsBlock(<<GoodTab, JMap([blocks |-> JNum])>>) >>),
       Page(<< TabsBlock(<<JMap([blocks |-> JList(<<JNum>>)])>>) >>),
       Page(<< TabsBlock(<<JMap([blocks |-> JList(<<JMap(<< >>)>>)])>>) >>),
       Page(<< TabsBlock(<<JMap([blocks |-> JList(<<JMap([richTextEditor |-> JNum])>>)])>>) >>),
       Page(<< TabsBlock(<<JMap([blocks |-> JList(<<JMap([richTextEditor |-> JMap(<< >>)])>>)])>>) >>),
       Page(<< TabsBlock(<<JMap([blocks |->
                JList(<<JMap([richTextEditor |-> JMap([articleRawHtml |-> JNum])])>>)])>>) >>),
       Page(<< TabsBlock(<<Tab(<< [root |-> "table", wellFormed |-> FALSE, rows |-> <<GoodRow>>] >>)>>) >>),
       Page(<< TabsBlock(<<Tab(<< [root |-> "div", wellFormed |-> TRUE, rows |-> <<GoodRow>>] >>)>>) >>),
       JList(<< >>),
       JNum,
       JNil >>

\* The page bodies: every text of up to MaxBody pieces around a plain
\* document, and every document between the two markers.
Pieces == {prefix[1], prefix[2], suffix[1], "J", "x"}

Layouts == SeqsUpTo(Pieces, MaxBody)

Marked == prefix \o <<"J">> \o suffix

(***************************************************************************)
(* main() as a state machine.                                              *)
(***************************************************************************)
Init ==
    /\ pc = "getPage"
    /\ local \in LocalZones
    /\ bodyString = [layout |-> << >>, doc |-> JNil]
    /\ jsonString = << >>
    /\ jsonMap = << >>
    /\ translations = << >>
    /\ res = << >>
    /\ files = {}

\* getPageAsString: the request fails, or the body is returned.
getPageAsString ==
    /\ pc = "getPage"
    /\ \/ /\ pc' = "panicked"
          /\ UNCHANGED bodyString
       \/ /\ pc' = "extract"
          /\ \/ \E l \in Layouts : bodyString' = [layout |-> l, doc |-> RowDoc(GoodRow)]
             \/ \E d \in TimeDocs \cup SortDocs \cup NavDocs \cup CellDocs :
                    bodyString' = [layout |-> Marked, doc |-> d]
             \/ \E k \in 1..Len(OddDocs) : bodyString' = [layout |-> Marked, doc |-> OddDocs[k]]
    /\ UNCHANGED <<local, jsonString, jsonMap, translations, res, files>>

\* parsePage, lines 56-59: the text between the markers.  Index is -1 for
\* an absent marker; a slice bound outside the string panics.
extractJson ==
    /\ pc = "extract"
    /\ LET prefixIdx == Index(bodyString.layout, prefix)
           from      == prefixIdx + Len(prefix)
       IN  IF from > Len(bodyString.layout)
           THEN pc' = "panicked" /\ UNCHANGED jsonString
           ELSE LET rest      == Drop(bodyString.layout, from)
                    suffixIdx == Index(rest, suffix)
                IN  IF suffixIdx < 0
                    THEN pc' = "panicked" /\ UNCHANGED jsonString
                    ELSE pc' = "decode" /\ jsonString' = SubSeq(rest, 1, suffixIdx)
    /\ UNCHANGED <<local, bodyString, jsonMap, translations, res, files>>

\* parsePage, lines 61-64: json.Unmarshal into a map[string]any.  JSON null
\* leaves the map nil; any other text that is not one JSON object is an
\* error.
decodeJson ==
    /\ pc = "decode"
    /\ IF jsonString = <<"J">> /\ bodyString.doc.kind \in {"map", "nil"}
       THEN /\ pc' = "navigate"
            /\ jsonMap' = IF bodyString.doc.kind = "map" THEN bodyString.doc.val ELSE << >>
       ELSE pc' = "panicked" /\ UNCHANGED jsonMap
    /\ UNCHANGED <<local, bodyString, jsonString, translations, res, files>>

\* parsePage, lines 66-85: the walk and the row parser.
navigateAndParse ==
    /\ pc = "navigate"
    /\ LET r == navigate(jsonMap)
       IN  IF r.ok
           THEN pc' = "resolve" /\ translations' = r.val
           ELSE pc' = "panicked" /\ UNCHANGED translations
    /\ UNCHANGED <<local, bodyString, jsonString, jsonMap, res, files>>

\* main, lines 43-45: one iteration of the loop over translations.
resolve ==
    /\ pc = "resolve"
    /\ Len(res) < Len(translations)
    /\ \E r \in {ToTypedTranslation(translations[Len(res) + 1], local)} :
           IF r.ok
           THEN pc' = pc /\ res' = Append(res, r.val)
           ELSE pc' = "panicked" /\ UNCHANGED res
    /\ UNCHANGED <<local, bodyString, jsonString, jsonMap, translations, files>>

\* main, lines 47-49.
sortStable ==
    /\ pc = "resolve"
    /\ Len(res) = Len(translations)
    /\ res' = SliceStable(res)
    /\ pc' = "reportJson"
    /\ UNCHANGED <<local, bodyString, jsonString, jsonMap, translations, files>>

\* lines 119-127: json.Marshal, then os.WriteFile.
reportJsonInLoop ==
    /\ pc \in {"resolve", "reportJson"}
    /\ JsonFile \notin files
    /\ files' = files \cup {JsonFile}
    /\ pc' = IF pc = "reportJson" THEN "reportCsv" ELSE pc
    /\ UNCHANGED <<local, bodyString, jsonString, jsonMap, translations, res>>

reportJson ==
    /\ pc = "reportJson"
    /\ IF MarshalOk(res)
       THEN pc' = "reportCsv" /\ files' = files \cup {JsonFile}
       ELSE pc' = "panicked" /\ UNCHANGED files
    /\ UNCHANGED <<local, bodyString, jsonString, jsonMap, translations, res>>

reportCsv ==
    /\ pc = "reportCsv"
    /\ files' = files \cup {CsvFile}
    /\ pc' = "done"
    /\ UNCHANGED <<local, bodyString, jsonString, jsonMap, translations, res>>

Next ==
    \/ getPageAsString
    \/ extractJson
    \/ decodeJson
    \/ navigateAndParse
    \/ resolve
    \/ sortStable
    \/ reportJson
    \/ reportCsv

Spec == Init /\ [][Next]_vars

(***************************************************************************)
(* What the properties below speak of.                                     *)
(***************************************************************************)
\* parsePage has returned normally.
Returned == pc \in {"resolve", "reportJson", "reportCsv", "done"}

\* The sort has completed.
SortDone == pc \in {"reportJson", "reportCsv", "done"}

\* The trailing word of a time text: what follows its last space.
ZoneWord(time) ==
    LET sp == {i \in 1..Len(time) : time[i] = " "}
    IN  IF sp = {} THEN time ELSE Drop(time, CHOOSE i \in sp : \A j \in sp : j <= i)

PacificMarked(time) == HasSuffix(time, <<"P", "T">>)

\* The zone abbreviations of the rows and the UTC offset each one names.
KnownOffsets ==
    << [name |-> <<"U", "T", "C">>, off |-> 0],
       [name |-> <<"P", "S", "T">>, off |-> 0 - 8 * 60],
       [name |-> <<"P", "D", "T">>, off |-> 0 - 7 * 60],
       [name |-> <<"C", "E", "T">>, off |-> 60],
       [name |-> <<"G", "M", "T", "+", "3">>, off |-> 3 * 60] >>

Recognized(word) == \E k \in 1..Len(KnownOffsets) : KnownOffsets[k].name = word

RealOffset(word) ==
    KnownOffsets[CHOOSE k \in 1..Len(KnownOffsets) : KnownOffsets[k].name = word].off

\* The date and clock time of a row, counted as if they were UTC.
WallClock(t) ==
    LET f == ParseFields(t.Date \o <<" ">> \o t.Time, ~PacificMarked(t.Time))
    IN  DaysFromCivil(f.year, f.month, f.day) * MinPerDay + f.hour * 60 + f.min

(***************************************************************************)
(* C1.  A row whose time text does not end in the Pacific marker and whose *)
(* trailing zone abbreviation is not a recognized one is never resolved:   *)
(* no record is produced for it and no report file is written.             *)
(***************************************************************************)
C1_UnrecognizedZoneAborts ==
    \A i \in 1..Len(translations) :
        (~PacificMarked(translations[i].Time) /\ ~Recognized(ZoneWord(translations[i].Time)))
            => (Len(res) < i /\ files = {})

(***************************************************************************)
(* C2.  A resolved row with an explicit zone abbreviation other than the   *)
(* Pacific marker has as OriginalTime the instant at which its date and    *)
(* clock time occur at the UTC offset the abbreviation names, and as       *)
(* AlmatyTime that instant in Asia/Almaty.                                 *)
(***************************************************************************)
C2_AbbreviationKeepsItsOffset ==
    pc = "resolve" =>
        \A i \in 1..Len(res) :
            (~PacificMarked(translations[i].Time) /\ Recognized(ZoneWord(translations[i].Time)))
                => /\ res[i].OriginalTime.unix =
                          WallClock(translations[i]) - RealOffset(ZoneWord(translations[i].Time))
                   /\ res[i].AlmatyTime.unix = res[i].OriginalTime.unix
                   /\ res[i].AlmatyTime.loc = Almaty

(***************************************************************************)
(* C7.  In every resolved record AlmatyTime and OriginalTime are the same  *)
(* instant, AlmatyTime shown in Asia/Almaty; for a Pacific-marker row the  *)
(* Almaty wall clock is the Los Angeles instant converted on its own: the  *)
(* instant plus Almaty's offset, +06 before 2024-03-01 00:00 Almaty time   *)
(* and +05 from then on.                                                   *)
(***************************************************************************)
AlmatySwitch == DaysFromCivil(2024, 3, 1) * MinPerDay - 6 * 60

ConvertedToAlmaty(unix) == unix + (IF unix < AlmatySwitch THEN 6 * 60 ELSE 5 * 60)

C7_SameInstant ==
    \A k \in 1..Len(res) :
        /\ res[k].AlmatyTime.unix = res[k].OriginalTime.unix
        /\ res[k].AlmatyTime.loc = Almaty
        /\ (res[k].AlmatyTime.unix + res[k].AlmatyTime.off)
               - (res[k].OriginalTime.unix + res[k].OriginalTime.off)
             = res[k].AlmatyTime.off - res[k].OriginalTime.off
        /\ res[k].OriginalTime.loc = LosAngeles
               => res[k].AlmatyTime.unix + res[k].AlmatyTime.off
                      = ConvertedToAlmaty(res[k].OriginalTime.unix)

\* Both branches have resolved a row, on either side of Almaty's change.
C7_Witness ==
    /\ \E k \in 1..Len(res) :
           res[k].OriginalTime.loc = LosAngeles /\ res[k].AlmatyTime.off = 5 * 60
    /\ \E k \in 1..Len(res) :
           res[k].OriginalTime.loc = UTC /\ res[k].AlmatyTime.off = 5 * 60

(***************************************************************************)
(* The navigation path of a document, read on its own: where the fragments *)
(* and their rows are, and in which order navigation meets them.           *)
(***************************************************************************)
Holds(v, key, kind) ==
    v.kind = "map" /\ key \in DOMAIN v.val /\ v.val[key].kind = kind

MarkerBlocks(blocks) ==
    {i \in 1..Len(blocks) : blocks[i].kind = "map" /\ "tabs" \in DOMAIN blocks[i].val}

FirstOf(S) == CHOOSE i \in S : \A j \in S : i <= j

LastOf(S) == CHOOSE i \in S : \A j \in S : j <= i

TopBlocks(doc) == doc.val.props.val.pageProps.val.blocks.val

TabsOf(doc) == TopBlocks(doc)[FirstOf(MarkerBlocks(TopBlocks(doc)))].val.tabs.val.tabs.val

BlocksOf(doc, i) == TabsOf(doc)[i].val.blocks.val

FragmentOf(doc, i, j) == BlocksOf(doc, i)[j].val.richTextEditor.val.articleRawHtml.val

\* Every element of the path is there and has its shape.
PathWellShaped(doc) ==
    /\ Holds(doc, "props", "map")
    /\ Holds(doc.val.props, "pageProps", "map")
    /\ Holds(doc.val.props.val.pageProps, "blocks", "list")
    /\ MarkerBlocks(TopBlocks(doc)) # {}
    /\ Holds(TopBlocks(doc)[FirstOf(MarkerBlocks(TopBlocks(doc)))], "tabs", "map")
    /\ Holds(TopBlocks(doc)[FirstOf(MarkerBlocks(TopBlocks(doc)))].val.tabs, "tabs", "list")
    /\ \A i \in 1..Len(TabsOf(doc)) :
           /\ Holds(TabsOf(doc)[i], "blocks", "list")
           /\ \A j \in 1..Len(BlocksOf(doc, i)) :
                  /\ Holds(BlocksOf(doc, i)[j], "richTextEditor", "map")
                  /\ Holds(BlocksOf(doc, i)[j].val.richTextEditor, "articleRawHtml", "str")

\* The body rows: <<tab, block, row>>, met in this order.
Positions(doc) ==
    UNION { UNION { {<<i, j, r>> : r \in 1..Len(FragmentOf(doc, i, j).rows)} :
                    j \in 1..Len(BlocksOf(doc, i)) } :
            i \in 1..Len(TabsOf(doc)) }

Earlier(p, q) ==
    \/ p[1] < q[1]
    \/ p[1] = q[1] /\ p[2] < q[2]
    \/ p[1] = q[1] /\ p[2] = q[2] /\ p[3] < q[3]

Rank(doc, q) == 1 + Cardinality({p \in Positions(doc) : Earlier(p, q)})

RowAt(doc, q) == FragmentOf(doc, q[1], q[2]).rows[q[3]]

Labels == {"dateBody", "tournamentBody", "regionBody", "timeBody", "broadcastBody"}

FieldOf(t, key) ==
    CASE key = "dateBody" -> t.Date
      [] key = "tournamentBody" -> t.Tournament
      [] key = "regionBody" -> t.Region
      [] key = "timeBody" -> t.Time
      [] key = "broadcastBody" -> t.Broadcast

CellsOf(row, key) == {c \in 1..Len(row) : row[c].Key = key}

(***************************************************************************)
(* C3.  parsePage returns normally only for a document whose navigation    *)
(* path is complete and of the right shape; for any other it aborts.       *)
(***************************************************************************)
C3_BrokenPathAborts == Returned => PathWellShaped(bodyString.doc)

(***************************************************************************)
(* C9.  parsePage goes on to navigate a decoded document only for a body   *)
(* that holds both the opening and the closing marker.                     *)
(***************************************************************************)
C9_MissingMarkerAborts ==
    (pc = "navigate" \/ Returned)
        => Index(bodyString.layout, prefix) >= 0 /\ Index(bodyString.layout, suffix) >= 0

(***************************************************************************)
(* C4.  A cell whose text holds a literal '&' outside any entity reference *)
(* keeps its text in the record: the '&' where it was, nothing else        *)
(* changed.                                                                *)
(***************************************************************************)
StartsAt(raw, i, ref) ==
    i + Len(ref) - 1 <= Len(raw) /\ SubSeq(raw, i, i + Len(ref) - 1) = ref

BareAmpersand(raw) ==
    /\ \E i \in 1..Len(raw) : raw[i] = "&"
    /\ \A i \in 1..Len(raw) :
           raw[i] = "&" => \A k \in 1..Len(Entities) : ~StartsAt(raw, i, Entities[k].ref)

C4_AmpersandKept ==
    (Returned /\ PathWellShaped(bodyString.doc)) =>
        \A q \in Positions(bodyString.doc) :
            \A key \in Labels :
                LET row   == RowAt(bodyString.doc, q)
                    cells == CellsOf(row, key)
                IN  (Cardinality(cells) = 1 /\ BareAmpersand(row[FirstOf(cells)].Raw))
                        => FieldOf(translations[Rank(bodyString.doc, q)], key)
                               = row[FirstOf(cells)].Raw

(***************************************************************************)
(* C8.  For a well-formed document parsePage returns one record per body   *)
(* row, the fragments in navigation order and the rows in body order: the  *)
(* record at a row's rank is the record of that row.                       *)
(***************************************************************************)
RecordOf(row) == unmarshalTable(Fragment(<<row>>), escapedRows(<<row>>)).val[1]

C8_OneRecordPerRow ==
    (Returned /\ PathWellShaped(bodyString.doc)) =>
        /\ Len(translations) = Cardinality(Positions(bodyString.doc))
        /\ \A q \in Positions(bodyString.doc) :
               translations[Rank(bodyString.doc, q)] = RecordOf(RowAt(bodyString.doc, q))

\* Two tabs, a tab of two fragments and a fragment with two identical rows
\* have been parsed.
C8_Witness ==
    /\ Returned
    /\ PathWellShaped(bodyString.doc)
    /\ Len(TabsOf(bodyString.doc)) >= 2
    /\ \E i \in 1..Len(TabsOf(bodyString.doc)) : Len(BlocksOf(bodyString.doc, i)) >= 2
    /\ \E q \in Positions(bodyString.doc) :
           /\ q[3] >= 2
           /\ RowAt(bodyString.doc, q) = RowAt(bodyString.doc, <<q[1], q[2], q[3] - 1>>)
           /\ Rank(bodyString.doc, q) > 2

(***************************************************************************)
(* C10.  When two or more cells of a row carry the same label, the record  *)
(* field of that label takes the text of the first such cell in parse      *)
(* order.                                                                  *)
(***************************************************************************)
Decoded(raw) == CharData(ReplaceAmp(raw)).val

C10_FirstCellWins ==
    (Returned /\ PathWellShaped(bodyString.doc)) =>
        \A q \in Positions(bodyString.doc) :
            \A key \in Labels :
                LET row   == RowAt(bodyString.doc, q)
                    cells == CellsOf(row, key)
                IN  Cardinality(cells) >= 2
                        => FieldOf(translations[Rank(bodyString.doc, q)], key)
                               = Decoded(row[FirstOf(cells)].Raw)

\* C10 as first stated: the field takes the text of the last cell that
\* carries the label.
C10_LastCellWins ==
    (Returned /\ PathWellShaped(bodyString.doc)) =>
        \A q \in Positions(bodyString.doc) :
            \A key \in Labels :
                LET row   == RowAt(bodyString.doc, q)
                    cells == CellsOf(row, key)
                IN  Cardinality(cells) >= 2
                        => FieldOf(translations[Rank(bodyString.doc, q)], key)
                               = Decoded(row[LastOf(cells)].Raw)

\* A row with two cells of one label and different texts has been parsed.
C10_Witness ==
    /\ Returned
    /\ PathWellShaped(bodyString.doc)
    /\ \E q \in Positions(bodyString.doc) :
           \E key \in Labels :
               LET row   == RowAt(bodyString.doc, q)
                   cells == CellsOf(row, key)
               IN  /\ Cardinality(cells) >= 2
                   /\ row[FirstOf(cells)].Raw # row[LastOf(cells)].Raw

(***************************************************************************)
(* C5.  What the report emitters get is the resolved records in ascending  *)
(* order of AlmatyTime, records of one instant in their order before the   *)
(* sort: record i stands at one plus the number of records that are        *)
(* earlier, or as early and before it.                                     *)
(***************************************************************************)
Resolved == [i \in 1..Len(translations) |-> ToTypedTranslation(translations[i], local).val]

SortedRank(pre, i) ==
    1 + Cardinality({j \in 1..Len(pre) :
                        \/ pre[j].AlmatyTime.unix < pre[i].AlmatyTime.unix
                        \/ pre[j].AlmatyTime.unix = pre[i].AlmatyTime.unix /\ j < i})

StableSorted(pre, sorted) ==
    /\ Len(sorted) = Len(pre)
    /\ \A i \in 1..Len(pre) : sorted[SortedRank(pre, i)] = pre[i]

C5_StableAscending == SortDone => StableSorted(Resolved, res)

\* The sort has moved a record, and two different records of one instant
\* were among them.
TiedAndUnordered(pre) ==
    /\ \E i, j \in 1..Len(pre) :
           /\ i < j
           /\ pre[i].AlmatyTime.unix = pre[j].AlmatyTime.unix
           /\ pre[i] # pre[j]
    /\ \E i, j \in 1..Len(pre) :
           i < j /\ pre[j].AlmatyTime.unix < pre[i].AlmatyTime.unix

C5_Witness == SortDone /\ TiedAndUnordered(Resolved)

(***************************************************************************)
(* C6.  A run that has panicked has written no file, and a file is written *)
(* only after the body was decoded, every row of every fragment parsed and *)
(* resolved, and the records sorted.                                       *)
(***************************************************************************)
C6_WritesAfterAllStages ==
    /\ pc = "panicked" => files = {}
    /\ files # {} =>
           /\ pc \in {"reportCsv", "done"}
           /\ jsonString = <<"J">>
           /\ navigate(jsonMap).ok /\ navigate(jsonMap).val = translations
           /\ \A i \in 1..Len(translations) : ToTypedTranslation(translations[i], local).ok
           /\ StableSorted(Resolved, res)

\* The last row of several failed to resolve, after the others had been.
C6_Witness ==
    /\ pc = "panicked"
    /\ Len(translations) >= 2
    /\ Len(res) = Len(translations) - 1
    /\ files = {}

=============================================================================
